---- MODULE Spec2Model ----
(***************************************************************************)
(* PrimeStay (src/app.py): a Flask property-listing application.           *)
(* The model covers the relational store (User, Property, Image,          *)
(* Application, Inquiry), the upload directory, the login session of each  *)
(* client and every route handler of the application.                     *)
(*                                                                         *)
(* Text is modelled as a sequence of one-character strings, so that        *)
(* strip(), lower(), LIKE matching, secure_filename() and splitext() are   *)
(* computed the way the code computes them.                                *)
(***************************************************************************)
EXTENDS Integers, Sequences, FiniteSets, TLC

(* ------------------------------------------------------------------ *)
(* Bounds of the model                                                 *)
(* ------------------------------------------------------------------ *)
\* largest Property id the store hands out (create is refused beyond it)
MaxId == 2
\* largest number of files ever written under the upload root
MaxFiles == 3
\* largest number of Application rows / Inquiry rows
MaxApps == 1
MaxInq == 1

(* ------------------------------------------------------------------ *)
(* Text primitives                                                     *)
(* ------------------------------------------------------------------ *)
UpperAlpha == <<"A","B","C","D","E","F","G","H","I","J","K","L","M","N","O","P","Q","R","S","T","U","V","W","X","Y","Z">>
LowerAlpha == <<"a","b","c","d","e","f","g","h","i","j","k","l","m","n","o","p","q","r","s","t","u","v","w","x","y","z">>
Digits == <<"0","1","2","3","4","5","6","7","8","9">>
Whitespace == {" "}

Range(s) == {s[i] : i \in DOMAIN s}

\* the lower-case letter of every upper-case letter
LowerOf == [c \in Range(UpperAlpha) |-> LowerAlpha[CHOOSE i \in 1..26 : UpperAlpha[i] = c]]

\* str.lower() on one character
LowerChar(c) == IF c \in DOMAIN LowerOf THEN LowerOf[c] ELSE c

\* str.lower()
Lower(s) == [i \in 1..Len(s) |-> LowerChar(s[i])]

RECURSIVE LStripChars(_, _)
LStripChars(s, cs) ==
    IF s # <<>> /\ Head(s) \in cs THEN LStripChars(Tail(s), cs) ELSE s

RECURSIVE RStripChars(_, _)
RStripChars(s, cs) ==
    IF s # <<>> /\ s[Len(s)] \in cs THEN RStripChars(SubSeq(s, 1, Len(s) - 1), cs) ELSE s

\* str.strip(chars)
StripChars(s, cs) == RStripChars(LStripChars(s, cs), cs)

\* the mutant of Strip: the value is used as submitted
StripNoop(s) == s

\* str.strip(): surrounding whitespace removed
Strip(s) == StripChars(s, Whitespace)

\* str(n) for n >= 0
RECURSIVE Str(_)
Str(n) == IF n < 10 THEN <<Digits[n + 1]>> ELSE Str(n \div 10) \o <<Digits[(n % 10) + 1]>>

\* SQL LIKE: % matches any run of characters, _ any one character
RECURSIVE Like(_, _)
Like(pat, s) ==
    IF pat = <<>> THEN s = <<>>
    ELSE IF Head(pat) = "%"
         THEN Like(Tail(pat), s) \/ (s # <<>> /\ Like(pat, Tail(s)))
         ELSE /\ s # <<>>
              /\ (Head(pat) = "_" \/ Head(pat) = Head(s))
              /\ Like(Tail(pat), Tail(s))

\* column.ilike(pattern): lower(column) LIKE lower(pattern)
ILike(col, pat) == Like(Lower(pat), Lower(col))

(* ------------------------------------------------------------------ *)
(* File names                                                          *)
(* ------------------------------------------------------------------ *)
ALLOWED_EXTENSIONS == { <<"p","n","g">>, <<"j","p","g">>, <<"j","p","e","g">>,
                        <<"w","e","b","p">>, <<"g","i","f">> }

\* index of the last "." of s, 0 when there is none
LastDot(s) ==
    IF \E i \in 1..Len(s) : s[i] = "."
    THEN CHOOSE i \in 1..Len(s) : s[i] = "." /\ \A j \in (i + 1)..Len(s) : s[j] # "."
    ELSE 0

\* allowed_file(filename)
allowed_file(filename) ==
    /\ "." \in Range(filename)
    /\ Lower(SubSeq(filename, LastDot(filename) + 1, Len(filename))) \in ALLOWED_EXTENSIONS

\* the characters werkzeug's secure_filename keeps: [A-Za-z0-9_.-]
SafeChars == Range(UpperAlpha) \cup Range(LowerAlpha) \cup Range(Digits) \cup {"_", ".", "-"}

\* "_".join(s.split()) for an s without surrounding whitespace
RECURSIVE JoinWords(_)
JoinWords(s) ==
    IF s = <<>> THEN <<>>
    ELSE IF Head(s) \in Whitespace
         THEN IF Tail(s) # <<>> /\ Head(Tail(s)) \in Whitespace
              THEN JoinWords(Tail(s))
              ELSE <<"_">> \o JoinWords(Tail(s))
         ELSE <<Head(s)>> \o JoinWords(Tail(s))

IsSafeChar(c) == c \in SafeChars

\* werkzeug.utils.secure_filename on an ASCII name (POSIX: os.sep is "/")
secure_filename(filename) ==
    LET nosep == [i \in 1..Len(filename) |-> IF filename[i] = "/" THEN " " ELSE filename[i]]
        joined == JoinWords(Strip(nosep))
        kept == SelectSeq(joined, IsSafeChar)
    IN  StripChars(kept, {".", "_"})

\* os.path.splitext(filename) for a name without directory part: <<base, ext>>
splitext(filename) ==
    LET d == LastDot(filename)
    IN  IF d > 0 /\ \E j \in 1..(d - 1) : filename[j] # "."
        THEN <<SubSeq(filename, 1, d - 1), SubSeq(filename, d, Len(filename))>>
        ELSE <<filename, <<>> >>

(* ------------------------------------------------------------------ *)
(* State                                                               *)
(* ------------------------------------------------------------------ *)
VARIABLES
    env,        \* process environment: ADMIN_EMAIL, ADMIN_PASSWORD
    up,         \* the module body has run and the server takes requests
    users,      \* table User
    props,      \* table Property
    images,     \* table Image
    apps,       \* table Application
    inquiries,  \* table Inquiry
    disk,       \* upload root: relative path -> number of times it was written
    session,    \* per client: the user id held by its session cookie, 0 for none
    reqs,       \* edit requests in flight inside save_images (stepwise runs only)
    last,       \* the request handled last and its response
    uploaded,   \* history: the <<property id, sanitized name>> pairs ingested so far
    deleted     \* history: the ids of the Property rows admin_delete removed

vars == <<env, up, users, props, images, apps, inquiries, disk, session, reqs, last, uploaded, deleted>>
history == <<uploaded, deleted>>
store == <<users, props, images, apps, inquiries, disk>>

Clients == {1, 2}
Slots == {1, 2}

Max(S) == CHOOSE m \in S : \A x \in S : x <= m

\* the rowid SQLite gives a new row of an INTEGER PRIMARY KEY table declared
\* without AUTOINCREMENT: one more than the largest rowid now in the table
NextId(rows) == IF rows = {} THEN 1 ELSE Max({r.id : r \in rows}) + 1

\* generate_password_hash / check_password_hash
generate_password_hash(pw) == [hash_of |-> pw]
check_password_hash(h, pw) == h.hash_of = pw

DefaultAdminEmail == <<"a","d","m","i","n","@","e","x","a","m","p","l","e",".","c","o","m">>
DefaultAdminPassword == <<"c","h","a","n","g","e","m","e","1","2","3">>
\* an ADMIN_EMAIL set by the operator
ConfiguredAdminEmail == <<"A","d","m","i","n","@","E","x","a","m","p","l","e",".","c","o","m">>

NoRequest == [op |-> "none", status |-> "", flash |-> "", result |-> <<>>]

\* what the client gets back: the status, the flashed message and the data shown
Response(op, status, flash, result) ==
    [op |-> op, status |-> status, flash |-> flash, result |-> result]

IdleReq == [pc |-> "idle", client |-> 0, pid |-> 0, files |-> <<>>, filename |-> <<>>,
            base |-> <<>>, ext |-> <<>>, counter |-> 0, rows |-> <<>>, saved |-> <<>>]

Init ==
    /\ env \in {[ADMIN_EMAIL |-> e, ADMIN_PASSWORD |-> DefaultAdminPassword] :
                    e \in {DefaultAdminEmail, ConfiguredAdminEmail}}
    /\ up = FALSE
    /\ users = {}
    /\ props = {}
    /\ images = {}
    /\ apps = {}
    /\ inquiries = {}
    /\ disk = << >>
    /\ session = [c \in Clients |-> 0]
    /\ reqs = [r \in Slots |-> IdleReq]
    /\ last = NoRequest
    /\ uploaded = {}
    /\ deleted = {}

(* ------------------------------------------------------------------ *)
(* Bootstrap                                                           *)
(* ------------------------------------------------------------------ *)
\* seed_admin(): the User table after it
seed_admin(us) ==
    IF Cardinality(us) = 0
    THEN us \cup {[id |-> NextId(us), email |-> env.ADMIN_EMAIL, name |-> "Admin",
                   password_hash |-> generate_password_hash(env.ADMIN_PASSWORD),
                   active |-> TRUE]}
    ELSE us

SampleDescription ==
    <<"S","u","n","n","y"," ","l","o","f","t"," ","w","i","t","h"," ","f","l","o","o","r","-","t","o","-","c","e","i","l","i","n","g"," ","w","i","n","d","o","w","s",","," ","p","o">> \o
    <<"l","i","s","h","e","d"," ","c","o","n","c","r","e","t","e"," ","f","l","o","o","r","s",","," ","a","n","d"," ","i","n","-","u","n","i","t"," ","l","a","u","n","d","r","y",".">>

SampleProperty(id) ==
    [id |-> id,
     title |-> <<"M","o","d","e","r","n"," ","D","o","w","n","t","o","w","n"," ","L","o","f","t">>,
     address |-> <<"1","2","3"," ","M","a","r","k","e","t"," ","S","t",","," ","U","n","i","t"," ","5","0","4">>,
     city |-> <<"L","o","s"," ","A","n","g","e","l","e","s">>,
     state |-> <<"C","A">>,
     price |-> 2950, for_rent |-> TRUE, beds |-> 1, baths |-> 1, sqft |-> 740,
     description |-> SampleDescription]

\* the seed step of the module body: the Property table after it
seed_property(ps) ==
    IF Cardinality(ps) = 0 THEN ps \cup {SampleProperty(NextId(ps))} ELSE ps

\* process start: db.create_all(), seed_admin(), the sample Property
Bootstrap ==
    /\ ~up
    /\ up' = TRUE
    /\ users' = seed_admin(users)
    /\ props' = seed_property(props)
    /\ last' = Response("bootstrap", "ok", "", <<>>)
    /\ UNCHANGED <<env, images, apps, inquiries, disk, session, reqs, history>>

\* the process stops; the store, the upload directory and the clients' cookies remain
Shutdown ==
    /\ up
    /\ \A r \in Slots : reqs[r].pc = "idle"
    /\ up' = FALSE
    /\ last' = Response("shutdown", "ok", "", <<>>)
    /\ UNCHANGED <<env, store, session, reqs, history>>

(* ------------------------------------------------------------------ *)
(* Authentication                                                      *)
(* ------------------------------------------------------------------ *)
\* load_user(user_id): the set holding the User of that id, empty when there is none
load_user(user_id) == {u \in users : u.id = user_id}

\* current_user.is_authenticated for the client's session cookie
is_authenticated(c) == session[c] # 0 /\ load_user(session[c]) # {}

\* the mutant of login_required: the decorator is missing
login_required_missing(c) == TRUE

\* @login_required lets the request through to the view
login_required(c) == is_authenticated(c)

\* login_manager.unauthorized(): redirect to login_view
Unauthorized(op) ==
    Response(op, "redirect_login",
             "Please log in to access this page.", <<>>)

\* DataRequired() on a text field
DataRequired(data) == data # <<>> /\ Strip(data) # <<>>

\* Email(): one "@", a local part, and a domain with an inner "."
EmailValid(data) ==
    /\ Cardinality({i \in 1..Len(data) : data[i] = "@"}) = 1
    /\ \A i \in 1..Len(data) : data[i] \notin Whitespace
    /\ LET at == CHOOSE i \in 1..Len(data) : data[i] = "@"
       IN  /\ at > 1
           /\ \E i \in (at + 2)..(Len(data) - 1) : data[i] = "."
           /\ data[at + 1] # "."

\* LoginForm.validate_on_submit()
LoginFormValid(method, form) ==
    /\ method = "POST"
    /\ form.csrf
    /\ DataRequired(form.email) /\ EmailValid(form.email)
    /\ DataRequired(form.password)

\* User.query.filter_by(email=...).first(): SQLite compares text byte by byte
UsersByEmail(email) == {u \in users : u.email = email}

\* /admin/login
admin_login(c, method, form) ==
    /\ up
    /\ IF LoginFormValid(method, form)
       THEN LET found == UsersByEmail(Lower(form.email))
                user == CHOOSE u \in found : \A v \in found : u.id <= v.id
                ok == /\ found # {}
                      /\ check_password_hash(user.password_hash, form.password)
                      /\ user.active
            IN  IF ok
                THEN /\ session' = [session EXCEPT ![c] = user.id]
                     /\ last' = Response("admin_login",
                                         "redirect_dashboard", "", <<>>)
                ELSE /\ session' = session
                     /\ last' = Response("admin_login",
                                         "ok", "Invalid credentials.", <<>>)
       ELSE /\ session' = session
            /\ last' = Response("admin_login", "ok", "", <<>>)
    /\ UNCHANGED <<env, up, store, reqs, history>>

\* /admin/logout
admin_logout(c) ==
    /\ up
    /\ IF login_required(c)
       THEN /\ session' = [session EXCEPT ![c] = 0]
            /\ last' = Response("admin_logout", "redirect_login", "", <<>>)
       ELSE /\ session' = session
            /\ last' = Unauthorized("admin_logout")
    /\ UNCHANGED <<env, up, store, reqs, history>>

(* ------------------------------------------------------------------ *)
(* Image ingestion                                                     *)
(* ------------------------------------------------------------------ *)
\* os.path.join(str(property_id), filename): the path below the upload root
PathOf(property_id, filename) == Str(property_id) \o <<"/">> \o filename

\* os.path.exists(os.path.join(dest_dir, filename))
Exists(dsk, property_id, filename) == PathOf(property_id, filename) \in DOMAIN dsk

\* f.save(path): creates the file or replaces its content
WriteFile(dsk, path) ==
    [p \in (DOMAIN dsk) \cup {path} |->
        IF p = path THEN (IF p \in DOMAIN dsk THEN dsk[p] + 1 ELSE 1) ELSE dsk[p]]

\* the "ensure unique" loop of save_images, entered with counter
RECURSIVE UniqueLoop(_, _, _, _, _, _)
UniqueLoop(dsk, property_id, base, ext, filename, counter) ==
    IF Exists(dsk, property_id, filename)
    THEN UniqueLoop(dsk, property_id, base, ext,
                    base \o <<"_">> \o Str(counter) \o ext, counter + 1)
    ELSE filename

\* the mutant of UniqueName: the existence check is dropped
UniqueNameNoCheck(dsk, property_id, filename) == filename

\* the name save_images stores an upload under
UniqueName(dsk, property_id, filename) ==
    LET parts == splitext(filename)
    IN  UniqueLoop(dsk, property_id, parts[1], parts[2], filename, 1)

\* the uploads of a request that save_images stores
Stored(files) == SelectSeq(files, LAMBDA f : f # <<>> /\ allowed_file(f))

\* the for loop of save_images; failAt is the position of the stored file whose
\* f.save raises (0: none does)
RECURSIVE SaveLoop(_, _, _, _, _, _)
SaveLoop(files, property_id, dsk, rows, saved, failAt) ==
    IF files = <<>>
    THEN [disk |-> dsk, rows |-> rows, saved |-> saved, raised |-> FALSE]
    ELSE LET f == Head(files)
         IN  IF f = <<>> \/ ~allowed_file(f)
             THEN SaveLoop(Tail(files), property_id, dsk, rows, saved, failAt)
             ELSE IF failAt = Len(saved) + 1
                  THEN [disk |-> dsk, rows |-> <<>>, saved |-> saved, raised |-> TRUE]
                  ELSE LET filename == UniqueName(dsk, property_id, secure_filename(f))
                       IN  SaveLoop(Tail(files), property_id,
                                    WriteFile(dsk, PathOf(property_id, filename)),
                                    Append(rows, PathOf(property_id, filename)),
                                    Append(saved, filename), failAt)

\* db.session.commit() of the Image rows added by save_images
CommitImages(imgs, property_id, rows) ==
    imgs \cup {[id |-> NextId(imgs) + i - 1, property_id |-> property_id, filename |-> rows[i]] :
                  i \in 1..Len(rows)}

\* save_images(files, property_id)
save_images(files, property_id, failAt) ==
    LET r == SaveLoop(files, property_id, disk, <<>>, <<>>, failAt)
    IN  /\ disk' = r.disk
        /\ images' = CommitImages(images, property_id, r.rows)
        /\ uploaded' = uploaded \cup
              {<<property_id, secure_filename(Stored(files)[i])>> : i \in 1..Len(r.saved)}

(* ------------------------------------------------------------------ *)
(* Admin management                                                    *)
(* ------------------------------------------------------------------ *)
\* Length(max=150) of PropertyForm.title, Length(max=5000) of its description
TitleMax == 150
DescriptionMax == 5000

\* A numeric form field is <<>> when nothing was submitted and <<n>> when n was.
\* DataRequired() on a numeric field: the parsed value must be truthy
DataRequiredNumber(field) == field # <<>> /\ field[1] # 0

\* PropertyForm.validate_on_submit()
PropertyFormValid(method, form) ==
    /\ method = "POST"
    /\ form.csrf
    /\ DataRequired(form.title) /\ Len(form.title) <= TitleMax
    /\ DataRequired(form.address)
    /\ DataRequired(form.city)
    /\ DataRequired(form.state)
    /\ DataRequiredNumber(form.price) /\ form.price[1] >= 0
    /\ form.mode \in {"rent", "sale"}
    /\ Len(form.description) <= DescriptionMax

\* "form.field.data or default" on a numeric field
OrDefault(field, default) == IF field = <<>> \/ field[1] = 0 THEN default ELSE field[1]

\* the column values admin_new and admin_edit take from a valid form
FormValues(id, form) ==
    [id |-> id,
     title |-> Strip(form.title),
     address |-> Strip(form.address),
     city |-> Strip(form.city),
     state |-> Strip(form.state),
     price |-> form.price[1],
     for_rent |-> (form.mode = "rent"),
     beds |-> OrDefault(form.beds, 1),
     baths |-> OrDefault(form.baths, 1),
     sqft |-> OrDefault(form.sqft, 500),
     description |-> form.description]

\* Property.query.get(prop_id): the set holding that row, empty when there is none
PropertyById(prop_id) == {p \in props : p.id = prop_id}

\* the files a request would add stay within the bound on the upload root
WithinFileBound(form) == Cardinality(DOMAIN disk) + Len(Stored(form.image_files)) <= MaxFiles

\* /admin/new
admin_new(c, method, form) ==
    /\ up
    /\ NextId(props) <= MaxId
    /\ WithinFileBound(form)
    /\ IF ~login_required(c)
       THEN /\ last' = Unauthorized("admin_new")
            /\ UNCHANGED <<props, images, disk, uploaded>>
       ELSE IF PropertyFormValid(method, form)
            THEN LET p == FormValues(NextId(props), form)
                 IN  /\ props' = props \cup {p}
                     /\ save_images(form.image_files, p.id, 0)
                     /\ last' = Response("admin_new",
                                         "redirect_dashboard", "Property created.",
                                         SaveLoop(form.image_files, p.id, disk, <<>>, <<>>, 0).saved)
            ELSE /\ last' = Response("admin_new", "ok", "", <<>>)
                 /\ UNCHANGED <<props, images, disk, uploaded>>
    /\ UNCHANGED <<env, up, users, apps, inquiries, session, reqs, deleted>>

\* /admin/<prop_id>/edit, with the save_images call run in one piece
admin_edit(c, method, prop_id, form, failAt) ==
    /\ up
    /\ failAt <= Len(Stored(form.image_files))
    /\ WithinFileBound(form)
    /\ IF ~login_required(c)
       THEN /\ last' = Unauthorized("admin_edit")
            /\ UNCHANGED <<props, images, disk, uploaded>>
       ELSE IF PropertyById(prop_id) = {}
            THEN /\ last' = Response("admin_edit", "not_found", "", <<>>)
                 /\ UNCHANGED <<props, images, disk, uploaded>>
            ELSE IF PropertyFormValid(method, form)
                 THEN LET r == SaveLoop(form.image_files, prop_id, disk, <<>>, <<>>, failAt)
                      IN  /\ props' = (props \ PropertyById(prop_id)) \cup {FormValues(prop_id, form)}
                          /\ save_images(form.image_files, prop_id, failAt)
                          /\ last' = IF r.raised
                                     THEN Response("admin_edit",
                                                   "server_error", "", r.saved)
                                     ELSE Response("admin_edit",
                                                   "redirect_dashboard", "Property updated.", r.saved)
                 ELSE /\ last' = Response("admin_edit", "ok", "", <<>>)
                      /\ UNCHANGED <<props, images, disk, uploaded>>
    /\ UNCHANGED <<env, up, users, apps, inquiries, session, reqs, deleted>>

\* cascade="all,delete" of Property.images: the Image table after the delete
DeleteCascade(imgs, prop_id) == {i \in imgs : i.property_id # prop_id}

\* /admin/<prop_id>/delete
admin_delete(c, prop_id) ==
    /\ up
    /\ IF ~login_required(c)
       THEN /\ last' = Unauthorized("admin_delete")
            /\ UNCHANGED <<props, images, deleted>>
       ELSE IF PropertyById(prop_id) = {}
            THEN /\ last' = Response("admin_delete", "not_found", "", <<>>)
                 /\ UNCHANGED <<props, images, deleted>>
            ELSE /\ props' = props \ PropertyById(prop_id)
                 /\ images' = DeleteCascade(images, prop_id)
                 /\ deleted' = deleted \cup {prop_id}
                 /\ last' = Response("admin_delete",
                                     "redirect_dashboard", "Property deleted.", <<>>)
    /\ UNCHANGED <<env, up, users, apps, inquiries, disk, session, reqs, uploaded>>

\* order_by(Property.created_at.desc()): a new row's id is larger than every id in
\* the table, so the rows by descending id are the rows newest first
RECURSIVE NewestFirst(_)
NewestFirst(ps) ==
    IF ps = {} THEN <<>>
    ELSE LET p == CHOOSE x \in ps : \A y \in ps : y.id <= x.id
         IN  <<p.id>> \o NewestFirst(ps \ {p})

\* /admin
admin_dashboard(c) ==
    /\ up
    /\ last' = IF login_required(c)
               THEN Response("admin_dashboard", "ok", "", NewestFirst(props))
               ELSE Unauthorized("admin_dashboard")
    /\ UNCHANGED <<env, up, store, session, reqs, history>>

(* ------------------------------------------------------------------ *)
(* Public catalog                                                      *)
(* ------------------------------------------------------------------ *)
\* limit(6) of home
HomeLimit == 6

\* f"%{q}%"
Contains(q) == <<"%">> \o q \o <<"%">>

\* the filters home and properties put on Property.query for stripped q and city
Filtered(q, city, mode) ==
    {p \in props :
        /\ q # <<>> => \/ ILike(p.title, Contains(q))
                       \/ ILike(p.address, Contains(q))
                       \/ ILike(p.city, Contains(q))
        /\ city # <<>> => ILike(p.city, Contains(city))
        /\ mode = "rent" => p.for_rent = TRUE
        /\ mode = "sale" => p.for_rent = FALSE}

Min(a, b) == IF a <= b THEN a ELSE b

\* /
home(args) ==
    /\ up
    /\ LET all == NewestFirst(Filtered(Strip(args.q), Strip(args.city), args.mode))
       IN  last' = Response("home", "ok", "",
                            SubSeq(all, 1, Min(HomeLimit, Len(all))))
    /\ UNCHANGED <<env, up, store, session, reqs, history>>

\* /properties
properties(args) ==
    /\ up
    /\ last' = Response("properties", "ok", "",
                        NewestFirst(Filtered(Strip(args.q), Strip(args.city), args.mode)))
    /\ UNCHANGED <<env, up, store, session, reqs, history>>

\* /properties/<prop_id>
property_detail(prop_id) ==
    /\ up
    /\ last' = IF PropertyById(prop_id) = {}
               THEN Response("property_detail", "not_found", "", <<>>)
               ELSE Response("property_detail", "ok", "", <<prop_id>>)
    /\ UNCHANGED <<env, up, store, session, reqs, history>>

\* /uploads/<filename>
uploaded_file(path) ==
    /\ up
    /\ last' = IF path \in DOMAIN disk
               THEN Response("uploaded_file", "ok", "", <<>>)
               ELSE Response("uploaded_file", "not_found", "", <<>>)
    /\ UNCHANGED <<env, up, store, session, reqs, history>>

(* ------------------------------------------------------------------ *)
(* Public submission                                                   *)
(* ------------------------------------------------------------------ *)
\* /apply/<prop_id>
apply(method, prop_id, form) ==
    /\ up
    /\ IF PropertyById(prop_id) = {}
       THEN /\ last' = Response("apply", "not_found", "", <<>>)
            /\ apps' = apps
       ELSE IF method = "POST"
            THEN LET full_name == Strip(form.full_name)
                     email == Strip(form.email)
                     phone == Strip(form.phone)
                     move_in == Strip(form.move_in)
                     message == Strip(form.message)
                 IN  IF ~(full_name # <<>> /\ email # <<>> /\ phone # <<>>)
                     THEN /\ last' = Response("apply", "ok",
                                              "Please complete all required fields.", <<>>)
                          /\ apps' = apps
                     ELSE /\ Cardinality(apps) < MaxApps
                          /\ apps' = apps \cup
                                {[id |-> NextId(apps), property_id |-> prop_id,
                                  full_name |-> full_name, email |-> email, phone |-> phone,
                                  move_in |-> move_in, message |-> message]}
                          /\ last' = Response("apply", "redirect_detail",
                                              "Application submitted. We'll be in touch shortly.", <<>>)
            ELSE /\ last' = Response("apply", "ok", "", <<>>)
                 /\ apps' = apps
    /\ UNCHANGED <<env, up, users, props, images, inquiries, disk, session, reqs, history>>

\* /contact
contact(method, form) ==
    /\ up
    /\ IF method = "POST"
       THEN LET full_name == Strip(form.full_name)
                email == Strip(form.email)
                phone == Strip(form.phone)
                subject == Strip(form.subject)
                message == Strip(form.message)
            IN  IF ~(full_name # <<>> /\ email # <<>> /\ subject # <<>> /\ message # <<>>)
                THEN /\ last' = Response("contact", "ok",
                                         "Please complete all required fields.", <<>>)
                     /\ inquiries' = inquiries
                ELSE /\ Cardinality(inquiries) < MaxInq
                     /\ inquiries' = inquiries \cup
                           {[id |-> NextId(inquiries), full_name |-> full_name, email |-> email,
                             phone |-> phone, subject |-> subject, message |-> message]}
                     /\ last' = Response("contact", "redirect_contact",
                                         "Thanks! We'll reply shortly.", <<>>)
       ELSE /\ last' = Response("contact", "ok", "", <<>>)
            /\ inquiries' = inquiries
    /\ UNCHANGED <<env, up, users, props, images, apps, disk, session, reqs, history>>

(* ------------------------------------------------------------------ *)
(* /admin/<prop_id>/edit, one step per file-system call of save_images  *)
(* ------------------------------------------------------------------ *)
\* the files the requests in flight have still to write
Pending == LET n(r) == Len(Stored(reqs[r].files)) IN n(1) + n(2)

\* the handler up to the call of save_images: the Property row is committed
edit_begin(r, c, prop_id, form) ==
    /\ up
    /\ reqs[r].pc = "idle"
    /\ login_required(c)
    /\ PropertyById(prop_id) # {}
    /\ PropertyFormValid("POST", form)
    /\ Cardinality(DOMAIN disk) + Pending + Len(Stored(form.image_files)) <= MaxFiles
    /\ props' = (props \ PropertyById(prop_id)) \cup {FormValues(prop_id, form)}
    /\ reqs' = [reqs EXCEPT ![r] = [IdleReq EXCEPT !.pc = "for", !.client = c,
                                       !.pid = prop_id, !.files = form.image_files]]
    /\ UNCHANGED <<env, up, users, images, apps, inquiries, disk, session, last, history>>

\* "for f in files": skip the entry, or sanitize its name and enter the while loop
edit_for(r) ==
    /\ reqs[r].pc = "for"
    /\ LET q == reqs[r]
       IN  IF q.files = <<>>
           THEN reqs' = [reqs EXCEPT ![r].pc = "commit"]
           ELSE LET f == Head(q.files)
                IN  IF f = <<>> \/ ~allowed_file(f)
                    THEN reqs' = [reqs EXCEPT ![r].files = Tail(q.files)]
                    ELSE LET filename == secure_filename(f)
                         IN  reqs' = [reqs EXCEPT ![r].pc = "exists",
                                                  ![r].filename = filename,
                                                  ![r].base = splitext(filename)[1],
                                                  ![r].ext = splitext(filename)[2],
                                                  ![r].counter = 1]
    /\ UNCHANGED <<env, up, store, session, last, history>>

\* one evaluation of "while os.path.exists(...)" and, when it holds, the loop body
edit_exists(r) ==
    /\ reqs[r].pc = "exists"
    /\ LET q == reqs[r]
       IN  IF Exists(disk, q.pid, q.filename)
           THEN reqs' = [reqs EXCEPT ![r].filename = q.base \o <<"_">> \o Str(q.counter) \o q.ext,
                                     ![r].counter = q.counter + 1]
           ELSE reqs' = [reqs EXCEPT ![r].pc = "save"]
    /\ UNCHANGED <<env, up, store, session, last, history>>

\* f.save(...), db.session.add(img), saved.append(filename)
edit_save(r) ==
    /\ reqs[r].pc = "save"
    /\ LET q == reqs[r]
       IN  /\ disk' = WriteFile(disk, PathOf(q.pid, q.filename))
           /\ uploaded' = uploaded \cup {<<q.pid, secure_filename(Head(q.files))>>}
           /\ reqs' = [reqs EXCEPT ![r].pc = "for",
                                   ![r].files = Tail(q.files),
                                   ![r].rows = Append(q.rows, PathOf(q.pid, q.filename)),
                                   ![r].saved = Append(q.saved, q.filename)]
    /\ UNCHANGED <<env, up, users, props, images, apps, inquiries, session, last, deleted>>

\* db.session.commit() of save_images and the response of admin_edit
edit_commit(r) ==
    /\ reqs[r].pc = "commit"
    /\ LET q == reqs[r]
       IN  /\ images' = CommitImages(images, q.pid, q.rows)
           /\ last' = Response("admin_edit",
                               "redirect_dashboard", "Property updated.", q.saved)
    /\ reqs' = [reqs EXCEPT ![r] = IdleReq]
    /\ UNCHANGED <<env, up, users, props, apps, inquiries, disk, session, history>>

(* ------------------------------------------------------------------ *)
(* Requests the clients send                                           *)
(* ------------------------------------------------------------------ *)
Methods == {"GET", "POST"}
PropIds == 1..(MaxId + 1)

LoginForm(csrf, email, password) == [csrf |-> csrf, email |-> email, password |-> password]
UnknownEmail == <<"b","o","b","@","e","x","a","m","p","l","e",".","c","o","m">>
WrongPassword == <<"l","e","t","m","e","i","n">>

GoodLogin == LoginForm(TRUE, DefaultAdminEmail, DefaultAdminPassword)

LoginForms ==
    {LoginForm(TRUE, e, pw) : e \in {DefaultAdminEmail, ConfiguredAdminEmail, UnknownEmail},
                              pw \in {DefaultAdminPassword, WrongPassword}}
    \cup {LoginForm(FALSE, DefaultAdminEmail, DefaultAdminPassword),
          LoginForm(TRUE, <<"a","d","m","i","n">>, DefaultAdminPassword),
          LoginForm(TRUE, DefaultAdminEmail, <<>>)}

\* raw names of uploaded files
FileA == <<"a",".","p","n","g">>
FileA1 == <<"a"," ","1",".","p","n","g">>
FileUp == <<".",".","/","a",".","p","n","g">>
FileTxt == <<"n","o","t","e","s",".","t","x","t">>

BaseForm ==
    [csrf |-> TRUE,
     title |-> <<" ","G","a","r","d","e","n"," ","F","l","a","t"," ">>,
     address |-> <<"9"," ","E","l","m"," ","R","d">>,
     city |-> <<"R","e","n","o">>,
     state |-> <<"N","V">>,
     price |-> <<1200>>, mode |-> "rent",
     beds |-> <<>>, baths |-> <<>>, sqft |-> <<>>,
     description |-> <<>>, image_files |-> <<>>]

\* a valid listing for sale with every optional field supplied
SaleForm ==
    [BaseForm EXCEPT !.mode = "sale", !.beds = <<2>>, !.baths = <<2>>, !.sqft = <<900>>,
                     !.description = <<"Q","u","i","e","t"," ","s","t","r","e","e","t">>]

FileLists == {<<FileA>>, <<FileA, FileA>>, <<FileA1>>, <<FileTxt, <<>>, FileUp>>}

\* the submissions of the admin area: the valid one, its invalid neighbours, uploads
PropertyForms ==
    {BaseForm,
     [BaseForm EXCEPT !.csrf = FALSE],
     [BaseForm EXCEPT !.title = <<" ", " ">>],
     [BaseForm EXCEPT !.price = <<0>>],
     [BaseForm EXCEPT !.price = <<-1>>],
     [BaseForm EXCEPT !.mode = "lease"],
     [BaseForm EXCEPT !.beds = <<0>>, !.baths = <<0>>, !.sqft = <<0>>]}
    \cup {[BaseForm EXCEPT !.image_files = fs] : fs \in FileLists}

\* two valid listings
ListingForms == {BaseForm, SaleForm}

\* the submissions of the sign-in runs
AuthForms == {[BaseForm EXCEPT !.image_files = <<FileA>>]}
AuthLogins == {GoodLogin, LoginForm(TRUE, DefaultAdminEmail, WrongPassword)}

\* the submissions of the ingestion runs
IngestForms ==
    {[BaseForm EXCEPT !.image_files = fs] :
        fs \in {<<FileA, FileA>>, <<FileA1>>, <<FileTxt, <<>>, FileUp>>}}

\* the submissions of the stepwise runs
UploadForms == {[BaseForm EXCEPT !.image_files = fs] : fs \in {<<FileA>>, <<FileA, FileA1>>}}

\* search arguments: q, city and mode as sent
SearchArgs ==
    {[q |-> q, city |-> city, mode |-> mode] :
        q \in {<<>>, <<" ","L","O"," ">>, <<"%">>, <<"_">>},
        city \in {<<>>, <<"a","n","g">>},
        mode \in {"all", "rent", "sale", "lease"}}

Blank == <<" ">>
ApplyForm(full_name, email, phone, move_in, message) ==
    [full_name |-> full_name, email |-> email, phone |-> phone, move_in |-> move_in,
     message |-> message]
GoodApply == ApplyForm(<<" ","A","n","n"," ","L","e","e"," ">>, <<"a","n","n","@","e","x","a","m","p","l","e",".","c","o","m"," ">>, <<"5","5","5"," ","0","1","0","0">>,
                       <<>>, <<" ","H","e","l","l","o"," ">>)
ApplyForms ==
    {GoodApply,
     [GoodApply EXCEPT !.full_name = Blank],
     [GoodApply EXCEPT !.email = <<>>],
     [GoodApply EXCEPT !.phone = Blank],
     [GoodApply EXCEPT !.message = <<>>, !.move_in = <<"M","a","y">>]}

ContactForm(full_name, email, phone, subject, message) ==
    [full_name |-> full_name, email |-> email, phone |-> phone, subject |-> subject,
     message |-> message]
GoodContact == ContactForm(<<"A","n","n"," ","L","e","e">>, <<" ","a","n","n","@","e","x","a","m","p","l","e",".","c","o","m">>, <<>>,
                           <<" ","V","i","e","w","i","n","g"," ">>, <<"I","s"," ","i","t"," ","f","r","e","e","?">>)
ContactForms ==
    {GoodContact,
     [GoodContact EXCEPT !.full_name = <<>>],
     [GoodContact EXCEPT !.email = Blank],
     [GoodContact EXCEPT !.subject = Blank],
     [GoodContact EXCEPT !.message = <<>>],
     [GoodContact EXCEPT !.phone = <<"5","5","5"," ","0","1","0","0"," ">>]}

(* ------------------------------------------------------------------ *)
(* Specifications                                                      *)
(* ------------------------------------------------------------------ *)
\* Image ingestion: one administrator creates, edits and deletes listings.
Next ==
    \/ Bootstrap
    \/ admin_login(1, "POST", GoodLogin)
    \/ \E f \in IngestForms : admin_new(1, "POST", f)
    \/ \E id \in PropIds, f \in IngestForms : admin_edit(1, "POST", id, f, 0)
    \/ \E id \in PropIds : admin_delete(1, id)

Spec == Init /\ [][Next]_vars

\* The admin area used by one client, with every kind of submission.
NextAdmin ==
    \/ Bootstrap
    \/ admin_login(1, "POST", GoodLogin)
    \/ admin_logout(1)
    \/ admin_dashboard(1)
    \/ \E m \in Methods, f \in PropertyForms : admin_new(1, m, f)
    \/ \E m \in Methods, id \in PropIds, f \in PropertyForms : admin_edit(1, m, id, f, 0)
    \/ \E id \in PropIds : admin_delete(1, id)
    \/ \E id \in PropIds : property_detail(id)

SpecAdmin == Init /\ [][NextAdmin]_vars

\* Signing in and out: two clients next to each other.
NextAuth ==
    \/ Bootstrap
    \/ \E c \in Clients : admin_login(c, "GET", LoginForm(FALSE, <<>>, <<>>))
    \/ \E c \in Clients, f \in AuthLogins : admin_login(c, "POST", f)
    \/ \E c \in Clients : admin_logout(c)
    \/ \E c \in Clients : admin_dashboard(c)
    \/ \E c \in Clients, m \in Methods, f \in AuthForms : admin_new(c, m, f)
    \/ \E c \in Clients, m \in Methods, id \in PropIds, f \in AuthForms : admin_edit(c, m, id, f, 0)
    \/ \E c \in Clients, id \in PropIds : admin_delete(c, id)

SpecAuth == Init /\ [][NextAuth]_vars

\* The login form with every kind of submission.
NextLogin ==
    \/ Bootstrap
    \/ \E c \in Clients : admin_login(c, "GET", LoginForm(FALSE, <<>>, <<>>))
    \/ \E c \in Clients, f \in LoginForms : admin_login(c, "POST", f)
    \/ \E c \in Clients : admin_logout(c)
    \/ \E c \in Clients : admin_dashboard(c)
    \/ \E c \in Clients, f \in AuthForms : admin_new(c, "POST", f)
    \/ \E c \in Clients, id \in PropIds : admin_delete(c, id)

SpecLogin == Init /\ [][NextLogin]_vars

\* The process is stopped and started again between requests.
NextRestart ==
    \/ Bootstrap
    \/ Shutdown
    \/ admin_login(1, "POST", GoodLogin)
    \/ \E f \in ListingForms : admin_new(1, "POST", f)
    \/ \E id \in PropIds, f \in ListingForms : admin_edit(1, "POST", id, f, 0)
    \/ \E id \in PropIds : admin_delete(1, id)

SpecRestart == Init /\ [][NextRestart]_vars

\* The catalog, next to an administrator who adds and removes listings.
NextCatalog ==
    \/ Bootstrap
    \/ admin_login(1, "POST", GoodLogin)
    \/ \E f \in ListingForms : admin_new(1, "POST", f)
    \/ \E id \in PropIds : admin_delete(1, id)
    \/ \E a \in SearchArgs : home(a)
    \/ \E a \in SearchArgs : properties(a)
    \/ \E id \in PropIds : property_detail(id)

SpecCatalog == Init /\ [][NextCatalog]_vars

\* The public forms, next to an administrator who removes listings.
NextPublic ==
    \/ Bootstrap
    \/ admin_login(1, "POST", GoodLogin)
    \/ \E id \in PropIds : admin_delete(1, id)
    \/ \E m \in Methods, id \in PropIds, f \in ApplyForms : apply(m, id, f)
    \/ \E m \in Methods, f \in ContactForms : contact(m, f)

SpecPublic == Init /\ [][NextPublic]_vars

\* Uploads in which f.save may raise.
NextFault ==
    \/ Bootstrap
    \/ admin_login(1, "POST", GoodLogin)
    \/ \E f \in PropertyForms : admin_new(1, "POST", f)
    \/ \E id \in PropIds, f \in PropertyForms, k \in 0..2 : admin_edit(1, "POST", id, f, k)
    \/ \E id \in PropIds : admin_delete(1, id)
    \/ \E path \in (DOMAIN disk) \cup {PathOf(1, FileA)} : uploaded_file(path)

SpecFault == Init /\ [][NextFault]_vars

\* Edit requests that run at the same time, interleaved at the calls of save_images.
NextConc ==
    \/ Bootstrap
    \/ \E c \in Clients : admin_login(c, "POST", GoodLogin)
    \/ \E r \in Slots, c \in Clients, id \in PropIds, f \in UploadForms : edit_begin(r, c, id, f)
    \/ \E r \in Slots : edit_for(r)
    \/ \E r \in Slots : edit_exists(r)
    \/ \E r \in Slots : edit_save(r)
    \/ \E r \in Slots : edit_commit(r)

SpecConc == Init /\ [][NextConc]_vars

(* ------------------------------------------------------------------ *)
(* Claims about the admin area                                         *)
(* ------------------------------------------------------------------ *)
\* the step is a request of client c to one of the admin operations
AdminRequest(c) ==
    \/ last'.op = "admin_logout" /\ admin_logout(c)
    \/ last'.op = "admin_dashboard" /\ admin_dashboard(c)
    \/ last'.op = "admin_new" /\ \E m \in Methods, f \in AuthForms : admin_new(c, m, f)
    \/ last'.op = "admin_edit"
          /\ \E m \in Methods, id \in PropIds, f \in AuthForms : admin_edit(c, m, id, f, 0)
    \/ last'.op = "admin_delete" /\ \E id \in PropIds : admin_delete(c, id)

\* C1: an admin request of a client that holds no session is redirected to the
\* login page and leaves every table, the upload directory and the sessions as
\* they are; Property and Image rows and uploaded files change only in a step
\* taken for a client that holds a session (or at startup); a client comes to
\* hold a session only by a successful login, and loses it with its logout.
C1_AdminNeedsSession ==
    [][ /\ \A c \in Clients :
              (session[c] = 0 /\ AdminRequest(c))
                  => /\ last'.status = "redirect_login"
                     /\ last'.result = <<>>
                     /\ UNCHANGED <<store, session>>
        /\ (props' # props \/ images' # images \/ disk' # disk)
              => \/ last'.op = "bootstrap"
                 \/ \E c \in Clients : session[c] # 0 /\ AdminRequest(c)
        /\ \A c \in Clients :
              /\ (session[c] = 0 /\ session'[c] # 0)
                    => /\ last'.op = "admin_login" /\ last'.status = "redirect_dashboard"
                       /\ \E u \in users : u.id = session'[c]
              /\ (session[c] # 0 /\ session'[c] = 0) => last'.op = "admin_logout"
              /\ (session[c] # 0 /\ admin_logout(c)) => session'[c] = 0
      ]_vars

\* C1 witness: one client is signed in, the other is not, and the request handled
\* last was a delete that was sent back to the login page
C1_Witness ==
    /\ last.op = "admin_delete"
    /\ last.status = "redirect_login"
    /\ \E c \in Clients : session[c] # 0
    /\ \E c \in Clients : session[c] = 0
    /\ Cardinality(props) = 2

\* C2: a valid login submission establishes a session exactly when some User has
\* the submitted email up to letter case, the password check succeeds and the
\* user is active; otherwise no session is established and the message is
\* "Invalid credentials."
C2_LoginIgnoresCase ==
    [][ \A c \in Clients, f \in LoginForms :
            (admin_login(c, "POST", f) /\ LoginFormValid("POST", f))
                => LET match == {u \in users : /\ Lower(u.email) = Lower(f.email)
                                                /\ check_password_hash(u.password_hash, f.password)
                                                /\ u.active}
                   IN  IF match # {}
                       THEN /\ last'.status = "redirect_dashboard"
                            /\ \E u \in match : session'[c] = u.id
                       ELSE /\ session' = session
                            /\ last'.flash = "Invalid credentials."
      ]_vars

\* C3: an authenticated delete of an existing Property removes the row and every
\* Image row of it; a delete of an id that is not there answers NotFound and
\* changes nothing; and from then on every detail lookup of a deleted id answers
\* NotFound.
C3_DeletedStaysGone ==
    [][ /\ \A c \in Clients, id \in PropIds :
              (admin_delete(c, id) /\ session[c] # 0)
                  => IF \E p \in props : p.id = id
                     THEN /\ ~\E p \in props' : p.id = id
                          /\ ~\E i \in images' : i.property_id = id
                     ELSE /\ last'.status = "not_found"
                          /\ UNCHANGED store
        /\ \A id \in deleted : property_detail(id) => last'.status = "not_found"
      ]_vars

\* the row the create contract promises for a submission
C4_Row(id, f) ==
    [id |-> id, title |-> Strip(f.title), address |-> Strip(f.address),
     city |-> Strip(f.city), state |-> Strip(f.state), price |-> f.price[1],
     for_rent |-> (f.mode = "rent"),
     beds |-> IF f.beds = <<>> THEN 1 ELSE f.beds[1],
     baths |-> IF f.baths = <<>> THEN 1 ELSE f.baths[1],
     sqft |-> IF f.sqft = <<>> THEN 500 ELSE f.sqft[1],
     description |-> f.description]

\* the submissions the create contract accepts
C4_Acceptable(f) ==
    /\ f.csrf
    /\ \A x \in {f.title, f.address, f.city, f.state} : \E i \in 1..Len(x) : x[i] \notin Whitespace
    /\ f.price # <<>> /\ f.price[1] >= 0
    /\ f.mode \in {"rent", "sale"}

\* C4: an authenticated create submission with non-empty title, address, city and
\* state, a price >= 0 and mode rent or sale adds exactly one Property row with
\* the submitted values, the defaults 1, 1.0, 500 standing in for absent beds,
\* baths and sqft only; any other submission adds no row.
C4_CreateContract ==
    [][ \A c \in Clients, f \in PropertyForms \cup ListingForms :
            (admin_new(c, "POST", f) /\ session[c] # 0)
                => IF C4_Acceptable(f)
                   THEN props' = props \cup {C4_Row(NextId(props), f)}
                   ELSE props' = props
      ]_vars

(* ------------------------------------------------------------------ *)
(* Claims about image ingestion                                        *)
(* ------------------------------------------------------------------ *)
\* the step is a completed create or edit of Property pid that ingested form f
IngestStep(pid, f) ==
    /\ last'.status = "redirect_dashboard"
    /\ \/ last'.op = "admin_new" /\ pid = NextId(props)
             /\ \E c \in Clients : admin_new(c, "POST", f)
       \/ last'.op = "admin_edit" /\ \E c \in Clients : admin_edit(c, "POST", pid, f, 0)

\* the sanitized names of the uploads of f that are stored, in order
SanitizedNames(f) ==
    [i \in 1..Len(Stored(f.image_files)) |-> secure_filename(Stored(f.image_files)[i])]

\* name.ext with the suffix _k before the extension
Suffixed(name, k) == splitext(name)[1] \o <<"_">> \o Str(k) \o splitext(name)[2]

\* name is free in the directory of pid when the i-th upload of the request is
\* stored: not on disk before the request, and not taken by an earlier upload of it
FreeAt(pid, saved, i, name) ==
    /\ PathOf(pid, name) \notin DOMAIN disk
    /\ \A j \in 1..(i - 1) : saved[j] # name

\* what ingestion does whatever the names are: one stored file per upload, under
\* pairwise distinct names, no file that was there rewritten, one Image row per
\* stored file with the path "{property_id}/{final filename}"
IngestKeepsFiles(pid, ns, saved) ==
    /\ Len(saved) = Len(ns)
    /\ \A i, j \in 1..Len(saved) : i # j => saved[i] # saved[j]
    /\ \A path \in DOMAIN disk : path \in DOMAIN disk' /\ disk'[path] = disk[path]
    /\ DOMAIN disk' = (DOMAIN disk) \cup {PathOf(pid, saved[i]) : i \in 1..Len(saved)}
    /\ \A i \in 1..Len(saved) : PathOf(pid, saved[i]) \notin DOMAIN disk
    /\ images \subseteq images'
    /\ Cardinality(images' \ images) = Len(saved)
    /\ \A i \in 1..Len(saved) :
          Cardinality({r \in images' \ images :
                          r.property_id = pid /\
                          r.filename = Str(pid) \o <<"/">> \o saved[i]}) = 1

\* C5 (as amended): every upload is stored under name.ext when that name is free
\* in the directory, and otherwise under name_k.ext for the least k >= 1 whose
\* name is free; stored names are pairwise distinct, no file is overwritten and
\* each stored file gets exactly one Image row "{property_id}/{final filename}".
C5_SmallestFreeName ==
    [][ (last'.op \in {"admin_new", "admin_edit"} /\ last'.status = "redirect_dashboard")
          => \A pid \in PropIds, f \in IngestForms :
                IngestStep(pid, f)
                  => LET ns == SanitizedNames(f)
                         saved == last'.result
                     IN  /\ IngestKeepsFiles(pid, ns, saved)
                         /\ \A i \in 1..Len(saved) :
                               IF FreeAt(pid, saved, i, ns[i])
                               THEN saved[i] = ns[i]
                               ELSE \E k \in 1..(MaxFiles + 1) :
                                       /\ saved[i] = Suffixed(ns[i], k)
                                       /\ FreeAt(pid, saved, i, Suffixed(ns[i], k))
                                       /\ \A j \in 1..(k - 1) :
                                             ~FreeAt(pid, saved, i, Suffixed(ns[i], j))
      ]_vars

\* C5 witness: an upload whose sanitized name a_1.png was already taken by the
\* renamed second a.png has been stored as a_1_1.png
C5_Witness ==
    /\ last.op \in {"admin_new", "admin_edit"}
    /\ last.status = "redirect_dashboard"
    /\ last.result = << <<"a","_","1","_","1",".","p","n","g">> >>
    /\ \E pid \in PropIds :
          {PathOf(pid, <<"a",".","p","n","g">>), PathOf(pid, <<"a","_","1",".","p","n","g">>),
           PathOf(pid, <<"a","_","1","_","1",".","p","n","g">>)} \subseteq DOMAIN disk

\* C5 (as claimed): the first upload of a sanitized name into a directory is
\* stored under that name, every later one under the least free suffixed name;
\* stored names are pairwise distinct, nothing is overwritten, one row per file.
C5_FirstKeepsItsName ==
    [][ (last'.op \in {"admin_new", "admin_edit"} /\ last'.status = "redirect_dashboard")
          => \A pid \in PropIds, f \in IngestForms :
                IngestStep(pid, f)
                  => LET ns == SanitizedNames(f)
                         saved == last'.result
                     IN  /\ IngestKeepsFiles(pid, ns, saved)
                         /\ \A i \in 1..Len(saved) :
                               IF <<pid, ns[i]>> \notin uploaded /\ \A j \in 1..(i - 1) : ns[j] # ns[i]
                               THEN saved[i] = ns[i]
                               ELSE \E k \in 1..(MaxFiles + 1) :
                                       /\ saved[i] = Suffixed(ns[i], k)
                                       /\ \A j \in 1..(k - 1) :
                                             ~FreeAt(pid, saved, i, Suffixed(ns[i], j))
      ]_vars

\* C9: every Image row names a file that is in the upload directory, and every
\* file in the upload directory has an Image row.
C9_FilesMatchRows ==
    /\ \A i \in images : i.filename \in DOMAIN disk
    /\ \A path \in DOMAIN disk : \E i \in images : i.filename = path

\* C10: no file in the upload directory was written by two uploads, and no two
\* Image rows carry the same path.
C10_NoClash ==
    /\ \A path \in DOMAIN disk : disk[path] = 1
    /\ \A i, j \in images : i # j => i.filename # j.filename

(* ------------------------------------------------------------------ *)
(* Claims about startup                                                *)
(* ------------------------------------------------------------------ *)
\* C7: on an empty store the bootstrap creates one admin User and one seed
\* Property; on a store that was bootstrapped before it changes nothing.
C7_BootstrapOnce ==
    [][ (last'.op = "bootstrap" /\ Bootstrap)
          => IF users = {}
             THEN Cardinality(users') = 1 /\ Cardinality(props') = 1
             ELSE UNCHANGED store
      ]_vars

(* ------------------------------------------------------------------ *)
(* Claims about the public pages                                       *)
(* ------------------------------------------------------------------ *)
\* x is missing or consists of whitespace
IsBlank(x) == \A i \in 1..Len(x) : x[i] \in Whitespace

\* t is x without its leading and trailing whitespace
IsTrimOf(t, x) ==
    \E a \in 1..(Len(x) + 1), b \in 0..Len(x) :
        /\ t = SubSeq(x, a, b)
        /\ \A i \in 1..(a - 1) : x[i] \in Whitespace
        /\ \A i \in (b + 1)..Len(x) : x[i] \in Whitespace
        /\ t # <<>> => t[1] \notin Whitespace /\ t[Len(t)] \notin Whitespace

\* row carries, under the given column names, the trimmed fields of form f
CarriesTrimmed(row, f, columns) == \A k \in columns : IsTrimOf(row[k], f[k])

\* C6: a POST to /apply/{id} with full_name, email or phone blank, and a POST to
\* /contact with full_name, email, subject or message blank, re-renders the form
\* and writes nothing; a POST with the mandatory fields filled adds exactly one
\* row (the Application bound to the Property id) that carries the trimmed
\* fields, and changes nothing else; /apply/{id} for an id that is not there
\* answers NotFound and writes nothing.
C6_Intake ==
    [][ /\ last'.op = "apply"
           => \A m \in Methods, id \in PropIds, f \in ApplyForms :
                 apply(m, id, f)
                   => IF ~\E p \in props : p.id = id
                      THEN last'.status = "not_found" /\ UNCHANGED store
                      ELSE IF m = "POST" /\ \A k \in {"full_name", "email", "phone"} : ~IsBlank(f[k])
                           THEN /\ last'.status = "redirect_detail"
                                /\ apps \subseteq apps'
                                /\ \E row \in apps' \ apps :
                                      /\ apps' = apps \cup {row}
                                      /\ row.property_id = id
                                      /\ CarriesTrimmed(row, f, {"full_name", "email", "phone",
                                                                 "move_in", "message"})
                                /\ UNCHANGED <<users, props, images, inquiries, disk>>
                           ELSE /\ last'.status = "ok"
                                /\ m = "POST" => last'.flash = "Please complete all required fields."
                                /\ UNCHANGED store
        /\ last'.op = "contact"
           => \A m \in Methods, f \in ContactForms :
                 contact(m, f)
                   => IF m = "POST" /\ \A k \in {"full_name", "email", "subject", "message"} :
                                            ~IsBlank(f[k])
                      THEN /\ last'.status = "redirect_contact"
                           /\ inquiries \subseteq inquiries'
                           /\ \E row \in inquiries' \ inquiries :
                                 /\ inquiries' = inquiries \cup {row}
                                 /\ CarriesTrimmed(row, f, {"full_name", "email", "phone",
                                                            "subject", "message"})
                           /\ UNCHANGED <<users, props, images, apps, disk>>
                      ELSE /\ last'.status = "ok"
                           /\ m = "POST" => last'.flash = "Please complete all required fields."
                           /\ UNCHANGED store
      ]_vars

\* C6 witness: one Application and one Inquiry have been accepted, and the
\* submission handled last was turned down for a blank mandatory field
C6_Witness ==
    /\ Cardinality(apps) = 1
    /\ Cardinality(inquiries) = 1
    /\ last.op \in {"apply", "contact"}
    /\ last.flash = "Please complete all required fields."

\* q occurs in s, letter case ignored
ContainsIgnoringCase(s, q) ==
    \E i \in 0..(Len(s) - Len(q)) : Lower(SubSeq(s, i + 1, i + Len(q))) = Lower(q)

\* the search contract for one record
C8_Matches(p, a) ==
    /\ \/ IsBlank(a.q)
       \/ \E t \in {p.title, p.address, p.city} :
             \E q \in {Strip(a.q)} : ContainsIgnoringCase(t, q)
    /\ \/ IsBlank(a.city)
       \/ ContainsIgnoringCase(p.city, Strip(a.city))
    /\ a.mode = "rent" => p.for_rent = TRUE
    /\ a.mode = "sale" => p.for_rent = FALSE

\* C8: the catalog search returns exactly the records for which q is blank or
\* occurs, letter case ignored, in title, address or city; city is blank or
\* occurs in city; and the mode filter, if rent or sale, agrees with for_rent
\* (on / only up to its cap of 6).
C8_SearchContract ==
    [][ last'.op \in {"properties", "home"}
          => \A a \in SearchArgs :
                (properties(a) \/ home(a))
                  => LET want == {p.id : p \in {x \in props : C8_Matches(x, a)}}
                         got == Range(last'.result)
                     IN  /\ got \subseteq want
                         /\ (last'.op = "properties" \/ Cardinality(want) <= HomeLimit) => got = want
      ]_vars

====
